---- MODULE Spec2Model ----
(***************************************************************************)
(* syspeek: the session/authorization engine (auth/auth.go), the routes    *)
(* that wrap every endpoint in a middleware (api/routes.go), the login and *)
(* process-kill handlers (api handlers), and the per-pid / per-device rate *)
(* state of the collectors (collectors/process_linux.go, disk).            *)
(*                                                                         *)
(* Time in the auth engine is counted in hours.  Tokens are integers:      *)
(* 0 is the empty string (no cookie, no Authorization header), -1 is a     *)
(* token the server never minted, 1..MaxTokens are the tokens              *)
(* generateToken returns, each of them once (32 random bytes).             *)
(***************************************************************************)
EXTENDS Integers, Sequences, FiniteSets, TLC

VARIABLES am, sessions, now, nextToken, req, conc, issued, loggedOut,
          kticks, previousCPUTicks, previousTime, wall, smp, observedAt, listTicks,
          netdev, previousNetStats, nsmp, netFatal,
          sse, refresh, leaked,
          procfs, nettab, sockOut,
          rawRow, decodedRow,
          locks, gor

authVars == <<am, sessions, now, nextToken, req, conc, issued, loggedOut>>
rateVars == <<kticks, previousCPUTicks, previousTime, wall, smp, observedAt, listTicks>>
netVars == <<netdev, previousNetStats, nsmp, netFatal>>
sseVars == <<sse, refresh, leaked>>
sockVars == <<procfs, nettab, sockOut>>
decVars == <<rawRow, decodedRow>>
lockVars == <<locks, gor>>
extVars == <<netVars, sseVars, sockVars, decVars, lockVars>>
vars == <<authVars, rateVars, extVars>>

(***************************************************************************)
(* Bounds of the model.                                                    *)
(***************************************************************************)
MaxTokens == 2
MaxTime == 48
TickHours == 24
MaxTicks == 2
MaxWall == 2
MaxBytes == 3
MaxLeaked == 2
MaxRows == 2

(***************************************************************************)
(* Program constants.                                                      *)
(***************************************************************************)
SessionTTL == 24
ServicePID == 7
SIGTERM == 15
StatusOK == 200
StatusBadRequest == 400
StatusUnauthorized == 401
StatusForbidden == 403
StatusMethodNotAllowed == 405
StatusInternalServerError == 500

NoToken == 0
Forged == 0 - 1
NoStatus == 0
NoPid == 0 - 1000

Reqs == {"r1"}

(***************************************************************************)
(* auth.go: HashPassword, NewAuthManager and the flag accessors.           *)
(***************************************************************************)
HashPassword(password) == "md5:syspeek_" \o password

NewAuthManager(username, password, readOnlyUsername, readOnlyPassword, isPublic, isAdmin) ==
    [username |-> username, password |-> password,
     readOnlyUsername |-> readOnlyUsername, readOnlyPassword |-> readOnlyPassword,
     hasReadWrite |-> (username # "" /\ password # ""),
     hasReadOnly |-> (readOnlyUsername # "" /\ readOnlyPassword # ""),
     isPublic |-> isPublic, isAdmin |-> isAdmin]

IsEnabled == am.hasReadWrite \/ am.hasReadOnly

RequiresLoginForReadOnly_nopublic == IsEnabled

RequiresLoginForReadOnly == IF am.isPublic THEN FALSE ELSE IsEnabled

(***************************************************************************)
(* auth.go: Login.  LoginTier is the tier the credentials match, tried     *)
(* read-write first; "none" is the generic failure.                        *)
(***************************************************************************)
LoginTier_rofirst(username, password) ==
    LET hashedPassword == HashPassword(password)
    IN  IF am.hasReadOnly /\ username = am.readOnlyUsername
                          /\ hashedPassword = am.readOnlyPassword THEN "ro"
        ELSE IF am.hasReadWrite /\ username = am.username
                               /\ hashedPassword = am.password THEN "rw"
        ELSE "none"

LoginTier(username, password) ==
    LET hashedPassword == HashPassword(password)
    IN  IF am.hasReadWrite /\ username = am.username
                           /\ hashedPassword = am.password THEN "rw"
        ELSE IF am.hasReadOnly /\ username = am.readOnlyUsername
                               /\ hashedPassword = am.readOnlyPassword THEN "ro"
        ELSE "none"

NewSession(token, username, readWrite, t) ==
    [Token |-> token, Username |-> username, ReadWrite |-> readWrite,
     CreatedAt |-> t, ExpiresAt |-> t + SessionTTL]

(***************************************************************************)
(* auth.go: the session map and its operations.                            *)
(***************************************************************************)
Logout_noop(s, token) == s

Logout(s, token) == [t \in DOMAIN s \ {token} |-> s[t]]

After_inclusive(t, u) == t >= u

After(t, u) == t > u

IsReadWrite_exists(s, token) == token \in DOMAIN s

IsReadWrite(s, token) ==
    IF token \in DOMAIN s THEN s[token].ReadWrite ELSE FALSE

(* CleanupExpiredSessions 269-280: delete every session with now.After(ExpiresAt) *)
CleanupExpiredSessions_inclusive(s, t) ==
    [k \in {x \in DOMAIN s : ~After_inclusive(t, s[x].ExpiresAt)} |-> s[k]]

CleanupExpiredSessions(s, t) ==
    [k \in {x \in DOMAIN s : ~After(t, s[x].ExpiresAt)} |-> s[k]]

(***************************************************************************)
(* api/routes.go: SetupRoutes.  "view" stands for the read endpoints,      *)
(* "kill" for /api/process/<pid>/kill, "action" for the other mutating     *)
(* endpoints (renice, user modify, group remove, docker and service        *)
(* actions), all wrapped alike.                                            *)
(***************************************************************************)
Routes == {"view", "kill", "action"}
Mutating(route) == route \in {"kill", "action"}

SetupRoutes_requireAuth(route) ==
    [mw |-> "Middleware", requireAuth |-> Mutating(route)]

SetupRoutes(route) ==
    IF Mutating(route) THEN [mw |-> "MiddlewareReadWrite", requireAuth |-> TRUE]
    ELSE [mw |-> "Middleware", requireAuth |-> FALSE]

(* auth.go 185-191 and 239-245: the session cookie, else the Authorization header *)
RequestToken(cookie, authorization) ==
    IF cookie # NoToken THEN cookie ELSE authorization

(***************************************************************************)
(* strconv.Atoi on a string given as its sequence of characters, and       *)
(* extractPID on a path given as its parts between slashes.                *)
(***************************************************************************)
Digits == <<"0", "1", "2", "3", "4", "5", "6", "7", "8", "9">>
IsDigit(c) == \E i \in 1..10 : Digits[i] = c
DigitVal(c) == (CHOOSE i \in 1..10 : Digits[i] = c) - 1

RECURSIVE DigitsVal(_)
DigitsVal(s) ==
    IF s = <<>> THEN 0
    ELSE 10 * DigitsVal(SubSeq(s, 1, Len(s) - 1)) + DigitVal(s[Len(s)])

Atoi(s) ==
    LET signed == s # <<>> /\ s[1] \in {"+", "-"}
        ds == IF signed THEN Tail(s) ELSE s
        good == ds # <<>> /\ \A i \in 1..Len(ds) : IsDigit(ds[i])
    IN  IF ~good THEN [ok |-> FALSE, val |-> 0]
        ELSE [ok |-> TRUE,
              val |-> IF signed /\ s[1] = "-" THEN 0 - DigitsVal(ds) ELSE DigitsVal(ds)]

extractPID(parts) ==
    LET hits == {i \in 1..Len(parts) :
                    /\ parts[i] = <<"process">>
                    /\ i + 1 <= Len(parts)
                    /\ Atoi(parts[i + 1]).ok}
    IN  IF hits = {} THEN <<>>
        ELSE parts[(CHOOSE i \in hits : \A j \in hits : i <= j) + 1]

(***************************************************************************)
(* HandleProcessKill: what it answers and the call of KillProcess it       *)
(* makes, from the method, the X-Authenticated marker, the path, the body  *)
(* (decoded or not, with its signal field) and the result of the syscall.  *)
(***************************************************************************)
NoKill == [killed |-> FALSE, pid |-> NoPid, sig |-> 0]

HandleProcessKill_noguard(method, hAuth, parts, body, osErr) ==
    LET pidStr == extractPID(parts)
        a == Atoi(pidStr)
        reqSignal == IF body.ok THEN body.signal ELSE SIGTERM
        signal == IF reqSignal = 0 THEN SIGTERM ELSE reqSignal
    IN  IF method # "POST" THEN [status |-> StatusMethodNotAllowed, kill |-> NoKill]
        ELSE IF hAuth # "true" THEN [status |-> StatusUnauthorized, kill |-> NoKill]
        ELSE IF ~a.ok THEN [status |-> StatusBadRequest, kill |-> NoKill]
        ELSE [status |-> IF osErr THEN StatusInternalServerError ELSE StatusOK,
              kill |-> [killed |-> TRUE, pid |-> a.val, sig |-> signal]]

HandleProcessKill(method, hAuth, parts, body, osErr) ==
    LET pidStr == extractPID(parts)
        a == Atoi(pidStr)
        reqSignal == IF body.ok THEN body.signal ELSE SIGTERM
        signal == IF reqSignal = 0 THEN SIGTERM ELSE reqSignal
    IN  IF method # "POST" THEN [status |-> StatusMethodNotAllowed, kill |-> NoKill]
        ELSE IF hAuth # "true" THEN [status |-> StatusUnauthorized, kill |-> NoKill]
        ELSE IF ~a.ok THEN [status |-> StatusBadRequest, kill |-> NoKill]
        ELSE IF a.val = ServicePID THEN [status |-> StatusForbidden, kill |-> NoKill]
        ELSE [status |-> IF osErr THEN StatusInternalServerError ELSE StatusOK,
              kill |-> [killed |-> TRUE, pid |-> a.val, sig |-> signal]]

(***************************************************************************)
(* The requests in flight.  A slot of req is one goroutine of the HTTP     *)
(* server: idle, or inside a middleware (pc names the next access to the   *)
(* session map), or done with its answer recorded.                         *)
(***************************************************************************)
IdleReq ==
    [pc |-> "idle", route |-> "none", token |-> NoToken, exp |-> 0,
     validated |-> FALSE, isAuth |-> FALSE, sawExpired |-> FALSE,
     hAuth |-> "", hRW |-> "", invoked |-> FALSE, status |-> NoStatus,
     method |-> "", target |-> NoPid, kill |-> NoKill,
     user |-> "", pass |-> "", ok |-> FALSE, rw |-> FALSE, minted |-> NoToken,
     message |-> "", cookie |-> NoToken]

(* the inputs the model draws requests from *)
Usernames == {"alice", "bob", "eve"}
Passwords == {"s1", "s2", "md5:syspeek_s1"}
Methods == {"GET", "POST"}
ClientHeaders == {<<"", "">>, <<"false", "true">>, <<"true", "true">>}
Bodies == {[ok |-> FALSE, signal |-> 0], [ok |-> TRUE, signal |-> 0], [ok |-> TRUE, signal |-> 9]}
PidTexts == {<<"7">>, <<"+", "7">>, <<"0", "7">>, <<"8">>, <<"0">>, <<"-", "7">>, <<"x">>}
KillPaths ==
    {<<<<>>, <<"api">>, <<"process">>, t, <<"kill">>>> : t \in PidTexts}
        \cup {<<<<>>, <<"api">>, <<"process">>, <<"kill">>>>}
PresentedTokens == {NoToken, Forged} \cup (1..(nextToken - 1))

(* main.go 360-369: the server refuses to start with no users and neither flag *)
Configs ==
    {c \in {NewAuthManager(rw[1], rw[2], ro[1], ro[2], pub, adm) :
                rw \in {<<"", "">>, <<"alice", "md5:syspeek_s1">>},
                ro \in {<<"", "">>, <<"bob", "md5:syspeek_s2">>,
                        <<"alice", "md5:syspeek_s1">>},
                pub \in BOOLEAN, adm \in BOOLEAN} :
        c.hasReadWrite \/ c.hasReadOnly \/ c.isPublic \/ c.isAdmin}

OthersIdle(r) == conc \/ \A q \in Reqs \ {r} : req[q].pc = "idle"
AllIdle == conc \/ \A q \in Reqs : req[q].pc = "idle"

(* what follows ValidateSession's return in either middleware *)
AfterValidate(r, isAuthenticated, expired) ==
    LET q == [req[r] EXCEPT !.validated = TRUE, !.isAuth = isAuthenticated,
                            !.sawExpired = expired]
    IN  IF SetupRoutes(q.route).mw = "MiddlewareReadWrite" /\ ~isAuthenticated
        THEN [q EXCEPT !.pc = "done", !.status = StatusUnauthorized]
        ELSE [q EXCEPT !.pc = "isrw"]

(* a request arrives: Middleware and MiddlewareReadWrite up to the token *)
Arrive(r, route, cookie, authorization, hdrs) ==
    /\ req[r].pc = "idle"
    /\ OthersIdle(r)
    /\ LET q == [IdleReq EXCEPT !.route = route, !.hAuth = hdrs[1], !.hRW = hdrs[2]]
       IN  req' = [req EXCEPT ![r] =
                IF am.isAdmin
                THEN [q EXCEPT !.pc = "next", !.hAuth = "true", !.hRW = "true"]
                ELSE [q EXCEPT !.pc = "vs_read",
                               !.token = RequestToken(cookie, authorization)]]
    /\ UNCHANGED <<am, sessions, now, nextToken, conc, issued, loggedOut>>
    /\ UNCHANGED <<rateVars, extVars>>

(* ValidateSession 140-146: the lookup under the read lock *)
VsRead(r) ==
    /\ req[r].pc = "vs_read"
    /\ OthersIdle(r)
    /\ req' = [req EXCEPT ![r] =
            IF req[r].token \in DOMAIN sessions
            THEN [req[r] EXCEPT !.pc = "vs_time", !.exp = sessions[req[r].token].ExpiresAt]
            ELSE AfterValidate(r, FALSE, FALSE)]
    /\ UNCHANGED <<am, sessions, now, nextToken, conc, issued, loggedOut>>
    /\ UNCHANGED <<rateVars, extVars>>

(* ValidateSession 148-153: the expiry test against time.Now() *)
VsTime(r) ==
    /\ req[r].pc = "vs_time"
    /\ OthersIdle(r)
    /\ req' = [req EXCEPT ![r] =
            IF After(now, req[r].exp)
            THEN [req[r] EXCEPT !.pc = "vs_logout"]
            ELSE AfterValidate(r, TRUE, FALSE)]
    /\ UNCHANGED <<am, sessions, now, nextToken, conc, issued, loggedOut>>
    /\ UNCHANGED <<rateVars, extVars>>

(* ValidateSession 149-150: am.Logout(token) of the expired session *)
VsLogout(r) ==
    /\ req[r].pc = "vs_logout"
    /\ OthersIdle(r)
    /\ sessions' = Logout(sessions, req[r].token)
    /\ req' = [req EXCEPT ![r] = AfterValidate(r, FALSE, TRUE)]
    /\ UNCHANGED <<am, now, nextToken, conc, issued, loggedOut>>
    /\ UNCHANGED <<rateVars, extVars>>

(* IsReadWrite(token), then the rest of the middleware up to next(w, r) *)
IsRW_keepsClientHeaders(r) ==
    /\ req[r].pc = "isrw"
    /\ OthersIdle(r)
    /\ LET q == req[r]
           isReadWrite == IsReadWrite(sessions, q.token)
           route == SetupRoutes(q.route)
           marked == q
       IN  req' = [req EXCEPT ![r] =
                IF route.mw = "MiddlewareReadWrite"
                THEN IF ~isReadWrite
                     THEN [q EXCEPT !.pc = "done", !.status = StatusForbidden]
                     ELSE [q EXCEPT !.pc = "next", !.hAuth = "true", !.hRW = "true"]
                ELSE IF (route.requireAuth /\ ~q.isAuth)
                        \/ (~route.requireAuth /\ RequiresLoginForReadOnly /\ ~q.isAuth)
                     THEN [marked EXCEPT !.pc = "done", !.status = StatusUnauthorized]
                     ELSE [marked EXCEPT !.pc = "next"]]
    /\ UNCHANGED <<am, sessions, now, nextToken, conc, issued, loggedOut>>
    /\ UNCHANGED <<rateVars, extVars>>

IsRW(r) ==
    /\ req[r].pc = "isrw"
    /\ OthersIdle(r)
    /\ LET q == req[r]
           isReadWrite == IsReadWrite(sessions, q.token)
           route == SetupRoutes(q.route)
           marked == [q EXCEPT !.hAuth = IF q.isAuth THEN "true" ELSE "false",
                               !.hRW = IF q.isAuth /\ isReadWrite THEN "true" ELSE "false"]
       IN  req' = [req EXCEPT ![r] =
                IF route.mw = "MiddlewareReadWrite"
                THEN IF ~isReadWrite
                     THEN [q EXCEPT !.pc = "done", !.status = StatusForbidden]
                     ELSE [q EXCEPT !.pc = "next", !.hAuth = "true", !.hRW = "true"]
                ELSE IF (route.requireAuth /\ ~q.isAuth)
                        \/ (~route.requireAuth /\ RequiresLoginForReadOnly /\ ~q.isAuth)
                     THEN [marked EXCEPT !.pc = "done", !.status = StatusUnauthorized]
                     ELSE [marked EXCEPT !.pc = "next"]]
    /\ UNCHANGED <<am, sessions, now, nextToken, conc, issued, loggedOut>>
    /\ UNCHANGED <<rateVars, extVars>>

(* next(w, r) on /api/process/<pid>/kill: HandleProcessKill runs *)
KillHandler(r, method, parts, body, osErr) ==
    /\ req[r].pc = "next"
    /\ req[r].route = "kill"
    /\ OthersIdle(r)
    /\ LET out == HandleProcessKill(method, req[r].hAuth, parts, body, osErr)
           a == Atoi(extractPID(parts))
       IN  req' = [req EXCEPT ![r] =
                [@ EXCEPT !.pc = "done", !.invoked = TRUE, !.method = method,
                          !.target = IF a.ok THEN a.val ELSE NoPid,
                          !.status = out.status, !.kill = out.kill]]
    /\ UNCHANGED <<am, sessions, now, nextToken, conc, issued, loggedOut>>
    /\ UNCHANGED <<rateVars, extVars>>

(* next(w, r) on any other route: the handler runs and answers *)
OtherHandler(r) ==
    /\ req[r].pc = "next"
    /\ req[r].route # "kill"
    /\ OthersIdle(r)
    /\ req' = [req EXCEPT ![r] = [@ EXCEPT !.pc = "done", !.invoked = TRUE,
                                           !.status = StatusOK]]
    /\ UNCHANGED <<am, sessions, now, nextToken, conc, issued, loggedOut>>
    /\ UNCHANGED <<rateVars, extVars>>

(* the answer has been written: the goroutine ends *)
Finish(r) ==
    /\ req[r].pc = "done"
    /\ OthersIdle(r)
    /\ req' = [req EXCEPT ![r] = IdleReq]
    /\ UNCHANGED <<am, sessions, now, nextToken, conc, issued, loggedOut>>
    /\ UNCHANGED <<rateVars, extVars>>

(* HandleLogin 69-75: the answer to a login that AuthManager.Login refused *)
LoginFailure_leaky(username) ==
    IF username \in {am.username, am.readOnlyUsername}
    THEN [status |-> StatusUnauthorized, message |-> "Invalid password"]
    ELSE [status |-> StatusUnauthorized, message |-> "Unknown user"]

LoginFailure(username) ==
    [status |-> StatusUnauthorized, message |-> "Invalid credentials"]

(* HandleLogin with AuthManager.Login: the map insert is one critical section *)
HandleLogin(r, method, bodyOk, username, password) ==
    /\ req[r].pc = "idle"
    /\ OthersIdle(r)
    /\ LET tier == LoginTier(username, password)
           q == [IdleReq EXCEPT !.pc = "done", !.route = "login", !.method = method]
       IN  IF method # "POST"
           THEN /\ req' = [req EXCEPT ![r] = [q EXCEPT !.status = StatusMethodNotAllowed]]
                /\ UNCHANGED <<sessions, nextToken, issued>>
           ELSE IF ~bodyOk
           THEN /\ req' = [req EXCEPT ![r] =
                        [q EXCEPT !.status = StatusBadRequest,
                                  !.message = "Invalid request body"]]
                /\ UNCHANGED <<sessions, nextToken, issued>>
           ELSE IF tier = "none"
           THEN /\ req' = [req EXCEPT ![r] =
                        [q EXCEPT !.user = username, !.pass = password,
                                  !.status = LoginFailure(username).status,
                                  !.message = LoginFailure(username).message]]
                /\ UNCHANGED <<sessions, nextToken, issued>>
           ELSE /\ nextToken <= MaxTokens
                /\ sessions' = [t \in DOMAIN sessions \cup {nextToken} |->
                        IF t = nextToken
                        THEN NewSession(nextToken, username, tier = "rw", now)
                        ELSE sessions[t]]
                /\ nextToken' = nextToken + 1
                /\ issued' = [t \in DOMAIN issued \cup {nextToken} |->
                        IF t = nextToken THEN [at |-> now, rw |-> (tier = "rw")]
                        ELSE issued[t]]
                /\ req' = [req EXCEPT ![r] =
                        [q EXCEPT !.user = username, !.pass = password, !.ok = TRUE,
                                  !.rw = (tier = "rw"), !.minted = nextToken,
                                  !.cookie = nextToken, !.status = StatusOK]]
    /\ UNCHANGED <<am, now, conc, loggedOut>>
    /\ UNCHANGED <<rateVars, extVars>>

(* HandleLogout 97-99: a POST with a session cookie calls Logout(cookie.Value) *)
HandleLogout(token) ==
    /\ AllIdle
    /\ sessions' = Logout(sessions, token)
    /\ loggedOut' = loggedOut \cup ({token} \cap DOMAIN sessions)
    /\ UNCHANGED <<am, now, nextToken, req, conc, issued>>
    /\ UNCHANGED <<rateVars, extVars>>

(* HandleAuthStatus 113-125: GetSession(cookie.Value), with no test of the expiry *)
HandleAuthStatus(r, cookie) ==
    /\ req[r].pc = "idle"
    /\ OthersIdle(r)
    /\ LET found == cookie \in DOMAIN sessions
       IN  req' = [req EXCEPT ![r] =
                [IdleReq EXCEPT !.pc = "done", !.route = "status", !.token = cookie,
                                !.isAuth = found, !.invoked = TRUE, !.status = StatusOK,
                                !.user = IF found THEN sessions[cookie].Username ELSE ""]]
    /\ UNCHANGED <<am, sessions, now, nextToken, conc, issued, loggedOut>>
    /\ UNCHANGED <<rateVars, extVars>>

(* the hourly ticker of StartCleanupRoutine fires *)
Sweep ==
    /\ AllIdle
    /\ sessions' = CleanupExpiredSessions(sessions, now)
    /\ UNCHANGED <<am, now, nextToken, req, conc, issued, loggedOut>>
    /\ UNCHANGED <<rateVars, extVars>>

(* time passes *)
Tick ==
    /\ AllIdle
    /\ now + TickHours <= MaxTime
    /\ now' = now + TickHours
    /\ UNCHANGED <<am, sessions, nextToken, req, conc, issued, loggedOut>>
    /\ UNCHANGED <<rateVars, extVars>>

(***************************************************************************)
(* collectors/process_linux.go: the per-pid CPU rate.  kticks is the       *)
(* kernel's utime+stime of each pid as /proc/<pid>/stat shows it, wall the *)
(* clock in tenths of a second, observedAt the time of the call that last  *)
(* stored a pid's ticks, listTicks the ticks the last process-list sample  *)
(* stored for a pid.  A uint64 difference is kept exactly, as the pair     *)
(* (hi, lo) that stands for hi * 2^64 + lo: a - b with a < b wraps to      *)
(* 2^64 - (b - a), that is hi = 1 and lo = a - b.                          *)
(***************************************************************************)
Pids == {1}
Samplers == {"s1", "s2"}

U64Sub_clamped(a, b) == IF a >= b THEN [hi |-> 0, lo |-> a - b] ELSE [hi |-> 0, lo |-> 0]

U64Sub(a, b) == [hi |-> IF a >= b THEN 0 ELSE 1, lo |-> a - b]

(* GetProcessList 133-137: seconds since the previous list, floored to 0.1 s *)
Elapsed(t, prevT) == IF t - prevT < 1 THEN 1 ELSE t - prevT

DetailElapsed == 10

NoRate == [has |-> FALSE, hi |-> 0, lo |-> 0, den |-> 1]

(* getProcessBasic 203-207: CPUPercent is set only when the pid has an entry *)
CPUPercent_zerobase(exists, totalTicks, prevTicks, elapsed) ==
    IF exists
    THEN [has |-> TRUE, hi |-> U64Sub(totalTicks, prevTicks).hi,
          lo |-> U64Sub(totalTicks, prevTicks).lo, den |-> elapsed]
    ELSE [has |-> TRUE, hi |-> 0, lo |-> totalTicks, den |-> elapsed]

CPUPercent(exists, totalTicks, prevTicks, elapsed) ==
    IF exists
    THEN [has |-> TRUE, hi |-> U64Sub(totalTicks, prevTicks).hi,
          lo |-> U64Sub(totalTicks, prevTicks).lo, den |-> elapsed]
    ELSE NoRate

(* getProcessBasic 208: previousCPUTicks[pid] = totalTicks, whatever the delta was *)
StoreTicks_skipsDecrease(m, pid, totalTicks) ==
    [p \in DOMAIN m \cup {pid} |->
        IF p = pid /\ (pid \notin DOMAIN m \/ totalTicks >= m[pid]) THEN totalTicks ELSE m[p]]

StoreTicks(m, pid, totalTicks) ==
    [p \in DOMAIN m \cup {pid} |-> IF p = pid THEN totalTicks ELSE m[p]]

IdleSmp ==
    [pc |-> "idle", op |-> "none", pid |-> 0, at |-> 0, elapsed |-> 1,
     ticks |-> 0, prev |-> 0 - 1, prevAt |-> 0 - 1, rate |-> NoRate]

SamplersIdle(s) == conc \/ \A q \in Samplers \ {s} : smp[q].pc = "idle"

(* GetProcessList 126-137: the directory is read, then the elapsed time is taken *)
ListStart(s) ==
    /\ smp[s].pc = "idle"
    /\ SamplersIdle(s)
    /\ smp' = [smp EXCEPT ![s] =
            [IdleSmp EXCEPT !.pc = "read", !.op = "list", !.pid = 1, !.at = wall,
                            !.elapsed = Elapsed(wall, previousTime)]]
    /\ UNCHANGED <<kticks, previousCPUTicks, previousTime, wall, observedAt, listTicks>>
    /\ UNCHANGED <<authVars, extVars>>

(* GetProcessDetail 262-263: getProcessBasic(pid, 1.0) *)
DetailStart(s, pid) ==
    /\ smp[s].pc = "idle"
    /\ SamplersIdle(s)
    /\ smp' = [smp EXCEPT ![s] =
            [IdleSmp EXCEPT !.pc = "read", !.op = "detail", !.pid = pid, !.at = wall,
                            !.elapsed = DetailElapsed]]
    /\ UNCHANGED <<kticks, previousCPUTicks, previousTime, wall, observedAt, listTicks>>
    /\ UNCHANGED <<authVars, extVars>>

(* getProcessBasic 169-200: /proc/<pid>/stat is read, outside the lock *)
ReadStat(s) ==
    /\ smp[s].pc = "read"
    /\ smp' = [smp EXCEPT ![s] = [@ EXCEPT !.pc = "update", !.ticks = kticks[smp[s].pid]]]
    /\ UNCHANGED <<kticks, previousCPUTicks, previousTime, wall, observedAt, listTicks>>
    /\ UNCHANGED <<authVars, extVars>>

(* getProcessBasic 202-209: the critical section under processMutex *)
UpdateTicks(s) ==
    /\ smp[s].pc = "update"
    /\ LET q == smp[s]
           exists == q.pid \in DOMAIN previousCPUTicks
           prevTicks == IF exists THEN previousCPUTicks[q.pid] ELSE 0
           last == q.op = "detail" \/ q.pid + 1 \notin Pids
       IN  /\ smp' = [smp EXCEPT ![s] =
                    [q EXCEPT !.pc = IF q.op = "list" /\ last THEN "end"
                                     ELSE IF q.op = "list" THEN "read" ELSE "done",
                              !.prev = IF exists THEN previousCPUTicks[q.pid] ELSE 0 - 1,
                              !.prevAt = IF exists THEN observedAt[q.pid] ELSE 0 - 1,
                              !.rate = CPUPercent(exists, q.ticks, prevTicks, q.elapsed),
                              !.pid = IF q.op = "list" /\ ~last THEN q.pid + 1 ELSE q.pid]]
           /\ previousCPUTicks' = StoreTicks(previousCPUTicks, q.pid, q.ticks)
           /\ observedAt' = [p \in DOMAIN observedAt \cup {q.pid} |->
                    IF p = q.pid THEN q.at ELSE observedAt[p]]
           /\ listTicks' = IF q.op # "list" THEN listTicks
                            ELSE [p \in DOMAIN listTicks \cup {q.pid} |->
                                    IF p = q.pid THEN q.ticks ELSE listTicks[p]]
    /\ UNCHANGED <<kticks, previousTime, wall>>
    /\ UNCHANGED <<authVars, extVars>>

(* GetProcessList 157-159: previousTime = now, under the lock *)
ListEnd(s) ==
    /\ smp[s].pc = "end"
    /\ previousTime' = smp[s].at
    /\ smp' = [smp EXCEPT ![s] = [@ EXCEPT !.pc = "done"]]
    /\ UNCHANGED <<kticks, previousCPUTicks, wall, observedAt, listTicks>>
    /\ UNCHANGED <<authVars, extVars>>

(* the caller has its answer *)
SmpReturn(s) ==
    /\ smp[s].pc = "done"
    /\ smp' = [smp EXCEPT ![s] = IdleSmp]
    /\ UNCHANGED <<kticks, previousCPUTicks, previousTime, wall, observedAt, listTicks>>
    /\ UNCHANGED <<authVars, extVars>>

(* the process runs: its tick counter grows *)
ProcRuns(p) ==
    /\ kticks[p] < MaxTicks
    /\ kticks' = [kticks EXCEPT ![p] = @ + 1]
    /\ UNCHANGED <<previousCPUTicks, previousTime, wall, smp, observedAt, listTicks>>
    /\ UNCHANGED <<authVars, extVars>>

(* the process exits and its pid is reused by a new process with fewer ticks *)
PidReused(p, t) ==
    /\ t < kticks[p]
    /\ kticks' = [kticks EXCEPT ![p] = t]
    /\ UNCHANGED <<previousCPUTicks, previousTime, wall, smp, observedAt, listTicks>>
    /\ UNCHANGED <<authVars, extVars>>

(* a tenth of a second passes *)
WallTick ==
    /\ wall < MaxWall
    /\ wall' = wall + 1
    /\ UNCHANGED <<kticks, previousCPUTicks, previousTime, smp, observedAt, listTicks>>
    /\ UNCHANGED <<authVars, extVars>>

(***************************************************************************)
(* collectors/sockets.go (network part): GetNetworkInfo.  netdev is the    *)
(* kernel's received-bytes counter of each interface as /proc/net/dev      *)
(* shows it.  previousNetStats is a plain map with no mutex: the lookup at *)
(* 364 and the assignment at 369 are separate accesses, and two goroutines *)
(* that are both between them race on the map; the Go runtime may then     *)
(* stop the process ("concurrent map read and map write") or let both      *)
(* accesses through.                                                       *)
(***************************************************************************)
Ifaces == {"eth0"}
NetSamplers == {"n1", "n2"}

IdleNet ==
    [pc |-> "idle", iface |-> "eth0", rx |-> 0, prev |-> 0 - 1, speed |-> NoRate]

(* GetNetworkInfo 297-361: /proc/net/dev is read and the interface's counters taken *)
NetScan(s) ==
    /\ ~netFatal
    /\ nsmp[s].pc = "idle"
    /\ \E i \in Ifaces :
        nsmp' = [nsmp EXCEPT ![s] = [IdleNet EXCEPT !.pc = "load", !.iface = i,
                                                   !.rx = netdev[i]]]
    /\ UNCHANGED <<netdev, previousNetStats, netFatal>>
    /\ UNCHANGED <<authVars, rateVars, sseVars, sockVars, decVars, lockVars>>

(* GetNetworkInfo 364-367: prev, exists := previousNetStats[iface.Name]; RxSpeed *)
NetLoad(s) ==
    /\ ~netFatal
    /\ nsmp[s].pc = "load"
    /\ LET q == nsmp[s]
           exists == q.iface \in DOMAIN previousNetStats
           prev == IF exists THEN previousNetStats[q.iface] ELSE 0
       IN  nsmp' = [nsmp EXCEPT ![s] =
                [q EXCEPT !.pc = "store",
                          !.prev = IF exists THEN prev ELSE 0 - 1,
                          !.speed = IF exists
                                    THEN [has |-> TRUE, hi |-> U64Sub(q.rx, prev).hi,
                                          lo |-> U64Sub(q.rx, prev).lo, den |-> 1]
                                    ELSE NoRate]]
    /\ UNCHANGED <<netdev, previousNetStats, netFatal>>
    /\ UNCHANGED <<authVars, rateVars, sseVars, sockVars, decVars, lockVars>>

(* GetNetworkInfo 369-373: previousNetStats[iface.Name] = ... *)
NetStore(s) ==
    /\ ~netFatal
    /\ nsmp[s].pc = "store"
    /\ previousNetStats' = [i \in DOMAIN previousNetStats \cup {nsmp[s].iface} |->
            IF i = nsmp[s].iface THEN nsmp[s].rx ELSE previousNetStats[i]]
    /\ nsmp' = [nsmp EXCEPT ![s] = [@ EXCEPT !.pc = "done"]]
    /\ UNCHANGED <<netdev, netFatal>>
    /\ UNCHANGED <<authVars, rateVars, sseVars, sockVars, decVars, lockVars>>

(* GetNetworkInfo 384: the caller has its answer *)
NetReturn(s) ==
    /\ ~netFatal
    /\ nsmp[s].pc = "done"
    /\ nsmp' = [nsmp EXCEPT ![s] = IdleNet]
    /\ UNCHANGED <<netdev, previousNetStats, netFatal>>
    /\ UNCHANGED <<authVars, rateVars, sseVars, sockVars, decVars, lockVars>>

(* the runtime detects the unsynchronized map accesses of two goroutines *)
NetFault ==
    /\ ~netFatal
    /\ \E s, t \in NetSamplers :
        /\ s # t
        /\ nsmp[s].pc = "store"
        /\ nsmp[t].pc \in {"load", "store"}
    /\ netFatal' = TRUE
    /\ UNCHANGED <<netdev, previousNetStats, nsmp>>
    /\ UNCHANGED <<authVars, rateVars, sseVars, sockVars, decVars, lockVars>>

(* the interface receives bytes *)
NetTraffic ==
    /\ ~netFatal
    /\ \E i \in Ifaces :
        /\ netdev[i] < MaxBytes
        /\ netdev' = [netdev EXCEPT ![i] = @ + 1]
    /\ UNCHANGED <<previousNetStats, nsmp, netFatal>>
    /\ UNCHANGED <<authVars, rateVars, sseVars, sockVars, decVars, lockVars>>

(***************************************************************************)
(* api (stream): HandleSSE, sendInitialData, sendSSEEvent.  A slot of sse  *)
(* is one connection to the stream endpoint.  tickers are the running      *)
(* tickers the call owns, burst the number of frames its initial burst has *)
(* written, timed whether a timer-driven frame has been written; leaked    *)
(* counts running tickers no call owns any                                 *)
(* more.  refresh is config.Refresh in milliseconds, as LoadConfig left it *)
(* (the file's values are taken as they are).                              *)
(***************************************************************************)
Categories ==
    <<"cpu", "memory", "disk", "network", "gpu", "processes", "sockets", "firewall">>
NumCategories == Len(Categories)
CategorySet == {Categories[k] : k \in 1..NumCategories}

(* the collectors that have a 'return nil, err' (or 'return info, err') path *)
MayFail == {"cpu", "memory", "disk", "network", "processes"}

Streams == {"c1", "c2"}

DefaultRefresh ==
    [c \in CategorySet |-> IF c = "firewall" THEN 10000 ELSE 5000]

RefreshConfigs ==
    {DefaultRefresh, [DefaultRefresh EXCEPT !["memory"] = 0]}

IdleSse ==
    [pc |-> "idle", i |-> 0, tickers |-> {}, ctx |-> FALSE, burst |-> 0,
     timed |-> FALSE, wfail |-> FALSE, lines |-> 0, cause |-> "none"]

(* sendSSEEvent 172-195: Marshal, the event line, the data line, Flush *)
sendSSEEvent_dropsError(marshalErr, eventLineErr, dataLineErr) ==
    IF marshalErr THEN [err |-> TRUE, kind |-> "marshal", lines |-> 0]
    ELSE IF eventLineErr THEN [err |-> FALSE, kind |-> "write", lines |-> 0]
    ELSE IF dataLineErr THEN [err |-> FALSE, kind |-> "write", lines |-> 1]
    ELSE [err |-> FALSE, kind |-> "none", lines |-> 2]

sendSSEEvent(marshalErr, eventLineErr, dataLineErr) ==
    IF marshalErr THEN [err |-> TRUE, kind |-> "marshal", lines |-> 0]
    ELSE IF eventLineErr THEN [err |-> TRUE, kind |-> "write", lines |-> 0]
    ELSE IF dataLineErr THEN [err |-> TRUE, kind |-> "write", lines |-> 1]
    ELSE [err |-> FALSE, kind |-> "none", lines |-> 2]

(* HandleSSE 45-54: the deferred func stops the eight tickers *)
StopAll_keepsLast(tickers) == tickers \cap {"firewall"}

StopAll(tickers) == {}

(* HandleSSE 36-43: the first category whose interval makes NewTicker panic, or 0 *)
FirstBadInterval ==
    IF \A k \in 1..NumCategories : refresh[Categories[k]] > 0 THEN 0
    ELSE CHOOSE k \in 1..NumCategories :
            /\ refresh[Categories[k]] <= 0
            /\ \A j \in 1..(k - 1) : refresh[Categories[j]] > 0

(* HandleSSE returns: the deferred func runs *)
Closed(q, cause) ==
    [q EXCEPT !.pc = "closed", !.i = 0, !.tickers = StopAll(q.tickers), !.cause = cause]

(* 'if data, err := collectors.GetX(); err == nil { if sendSSEEvent(...) != nil { return } }' *)
Sample(q, cat, collErr, out, timer) ==
    IF collErr /\ cat \in MayFail THEN q
    ELSE LET w == [q EXCEPT !.wfail = @ \/ out.kind = "write",
                            !.lines = IF out.kind = "write" THEN out.lines ELSE @]
         IN  IF out.err THEN Closed(w, out.kind)
             ELSE IF out.kind = "write" THEN w
             ELSE IF timer THEN [w EXCEPT !.timed = TRUE]
             ELSE [w EXCEPT !.burst = @ + 1]

(* HandleSSE 18-54: the flusher, the eight NewTicker calls, the defer *)
Connect(s, flusherOk) ==
    /\ sse[s].pc = "idle"
    /\ IF ~flusherOk
       THEN /\ sse' = [sse EXCEPT ![s] = Closed(IdleSse, "noflusher")]
            /\ UNCHANGED leaked
       ELSE IF FirstBadInterval # 0
       THEN /\ leaked + FirstBadInterval - 1 <= MaxLeaked
            /\ leaked' = leaked + FirstBadInterval - 1
            /\ sse' = [sse EXCEPT ![s] = [IdleSse EXCEPT !.pc = "closed", !.cause = "panic"]]
       ELSE /\ sse' = [sse EXCEPT ![s] =
                    [IdleSse EXCEPT !.pc = "burst", !.i = 1, !.tickers = CategorySet]]
            /\ UNCHANGED leaked
    /\ UNCHANGED refresh
    /\ UNCHANGED <<authVars, rateVars, netVars, sockVars, decVars, lockVars>>

(* sendInitialData 126-170: the next category of the initial burst *)
BurstStep(s, collErr, marshalErr, eventLineErr, dataLineErr) ==
    /\ sse[s].pc = "burst"
    /\ LET q == sse[s]
           out == sendSSEEvent(marshalErr, eventLineErr, dataLineErr)
           after == Sample(q, Categories[q.i], collErr, out, FALSE)
       IN  sse' = [sse EXCEPT ![s] =
                IF after.pc = "closed" THEN after
                ELSE IF q.i = NumCategories THEN [after EXCEPT !.pc = "loop", !.i = 0]
                ELSE [after EXCEPT !.i = q.i + 1]]
    /\ UNCHANGED <<refresh, leaked>>
    /\ UNCHANGED <<authVars, rateVars, netVars, sockVars, decVars, lockVars>>

(* HandleSSE 67-121: a ticker's channel is chosen by the select *)
TimerFire(s, cat, collErr, marshalErr, eventLineErr, dataLineErr) ==
    /\ sse[s].pc = "loop"
    /\ cat \in sse[s].tickers
    /\ sse' = [sse EXCEPT ![s] =
            Sample(sse[s], cat, collErr,
                   sendSSEEvent(marshalErr, eventLineErr, dataLineErr), TRUE)]
    /\ UNCHANGED <<refresh, leaked>>
    /\ UNCHANGED <<authVars, rateVars, netVars, sockVars, decVars, lockVars>>

(* the client goes away: the request's context is cancelled *)
CtxCancel(s) ==
    /\ sse[s].pc \in {"burst", "loop"}
    /\ ~sse[s].ctx
    /\ sse' = [sse EXCEPT ![s] = [@ EXCEPT !.ctx = TRUE]]
    /\ UNCHANGED <<refresh, leaked>>
    /\ UNCHANGED <<authVars, rateVars, netVars, sockVars, decVars, lockVars>>

(* HandleSSE 64-65: case <-ctx.Done() *)
LoopCancel(s) ==
    /\ sse[s].pc = "loop"
    /\ sse[s].ctx
    /\ sse' = [sse EXCEPT ![s] = Closed(sse[s], "cancel")]
    /\ UNCHANGED <<refresh, leaked>>
    /\ UNCHANGED <<authVars, rateVars, netVars, sockVars, decVars, lockVars>>

(* the connection's goroutine is gone; a new client may connect *)
Reap(s) ==
    /\ sse[s].pc = "closed"
    /\ sse' = [sse EXCEPT ![s] = IdleSse]
    /\ UNCHANGED <<refresh, leaked>>
    /\ UNCHANGED <<authVars, rateVars, netVars, sockVars, decVars, lockVars>>

(***************************************************************************)
(* collectors/process_linux.go: parseAddr, parseHexIP, parseState, the     *)
(* decoders of a connection-table row.  A hex field is the sequence of its *)
(* characters.  A decoded address is kept as what the formatting call      *)
(* prints: "dotted" is %d.%d.%d.%d of four bytes, "ipv6" the IPv6 text of  *)
(* sixteen bytes, "raw" the field itself.                                  *)
(***************************************************************************)
HexUpper == <<"0", "1", "2", "3", "4", "5", "6", "7", "8", "9", "A", "B", "C", "D", "E", "F">>
HexLower == <<"0", "1", "2", "3", "4", "5", "6", "7", "8", "9", "a", "b", "c", "d", "e", "f">>
IsHex(c) == \E k \in 1..16 : HexUpper[k] = c \/ HexLower[k] = c
HexVal(c) == (CHOOSE k \in 1..16 : HexUpper[k] = c \/ HexLower[k] = c) - 1

(* strconv.ParseUint(s, 16, 8) of two characters, the error dropped: 0 on bad syntax *)
ParseUint8(pair) ==
    IF IsHex(pair[1]) /\ IsHex(pair[2]) THEN 16 * HexVal(pair[1]) + HexVal(pair[2]) ELSE 0

(* strconv.ParseInt(s, 16, 32) of a port field, the error dropped *)
RECURSIVE ParseHex(_)
ParseHex(f) ==
    IF f = <<>> THEN 0
    ELSE 16 * ParseHex(SubSeq(f, 1, Len(f) - 1)) + HexVal(f[Len(f)])

ParsePort(f) ==
    IF f # <<>> /\ \A k \in 1..Len(f) : IsHex(f[k]) THEN ParseHex(f) ELSE 0

(* net.IP(bytes).String(): an IPv4-mapped address is printed as dotted IPv4 *)
IPString(bytes) ==
    IF (\A k \in 1..10 : bytes[k] = 0) /\ bytes[11] = 255 /\ bytes[12] = 255
    THEN [form |-> "dotted", b |-> SubSeq(bytes, 13, 16)]
    ELSE [form |-> "ipv6", b |-> bytes]

(* parseHexIP 540-566 *)
parseHexIP(hex) ==
    IF Len(hex) = 8
    THEN [form |-> "dotted",
          b |-> [k \in 1..4 |-> ParseUint8(SubSeq(hex, 2 * (4 - k) + 1, 2 * (4 - k) + 2))]]
    ELSE IF Len(hex) = 32
    THEN IPString([n \in 1..16 |->
            LET i == (n - 1) \div 4
                j == 3 - ((n - 1) % 4)
            IN  ParseUint8(SubSeq(hex, 8 * i + 2 * j + 1, 8 * i + 2 * j + 2))])
    ELSE [form |-> "raw", b |-> hex]

(* parseAddr 528-538 on the parts of strings.Split(addr, ":") *)
parseAddr(parts) ==
    IF Len(parts) # 2 THEN [ip |-> [form |-> "raw", b |-> <<>>], port |-> 0]
    ELSE [ip |-> parseHexIP(parts[1]), port |-> ParsePort(parts[2])]

(* parseState 568-587 *)
states ==
    [c \in {"01", "02", "03", "04", "05", "06", "07", "08", "09", "0A", "0B"} |->
        CASE c = "01" -> "ESTABLISHED" [] c = "02" -> "SYN_SENT" [] c = "03" -> "SYN_RECV"
          [] c = "04" -> "FIN_WAIT1" [] c = "05" -> "FIN_WAIT2" [] c = "06" -> "TIME_WAIT"
          [] c = "07" -> "CLOSE" [] c = "08" -> "CLOSE_WAIT" [] c = "09" -> "LAST_ACK"
          [] c = "0A" -> "LISTEN" [] c = "0B" -> "CLOSING"]

parseState(state) == IF state \in DOMAIN states THEN states[state] ELSE state

(***************************************************************************)
(* collectors/sockets.go: GetSocketInfo, buildInodeMap, parseNetSockets.   *)
(* procfs is /proc as the scan finds it: for each pid its comm, whether    *)
(* its fd directory can be read, and the link targets of its descriptors   *)
(* (kind "socket" with ino n stands for "socket:[n]").  nettab is one      *)
(* connection table: per row its number of fields, its local address field *)
(* and its inode field.                                                    *)
(* sockOut is the answer of the last call.                                 *)
(***************************************************************************)
(* os.ReadDir returns the entries sorted by name: "10" comes before "2" *)
ProcEntries == <<10, 2>>
ScanPids == {ProcEntries[k] : k \in 1..Len(ProcEntries)}
Comm == [pid \in ScanPids |-> IF pid = 10 THEN "nginx" ELSE "sshd"]

FdTargets ==
    {[kind |-> "socket", ino |-> "5"], [kind |-> "socket", ino |-> "6"],
     [kind |-> "pipe", ino |-> "5"]}
ProcRecords ==
    {[comm |-> c, fdOk |-> ok, fds |-> f] :
        c \in {"nginx", "sshd"}, ok \in BOOLEAN, f \in SUBSET FdTargets}
ProcTables ==
    {t \in [ScanPids -> ProcRecords] : \A pid \in ScanPids : t[pid].comm = Comm[pid]}

(* the local address field split at ":": 0100007F:0050, and a field with no colon *)
GoodAddr == <<<<"0", "1", "0", "0", "0", "0", "7", "F">>, <<"0", "0", "5", "0">>>>
BadAddr == <<<<"0", "1", "0", "0", "0", "0", "7", "F">>>>

TableRows ==
    {[nf |-> n, inode |-> i, addr |-> GoodAddr] : n \in {9, 10}, i \in {"5", "6", "0"}}
        \cup {[nf |-> 10, inode |-> "5", addr |-> BadAddr]}
RECURSIVE SeqsUpTo(_, _)
SeqsUpTo(S, n) ==
    IF n = 0 THEN {<<>>}
    ELSE SeqsUpTo(S, n - 1)
            \cup {Append(q, x) : q \in {r \in SeqsUpTo(S, n - 1) : Len(r) = n - 1}, x \in S}
NetTables == SeqsUpTo(TableRows, MaxRows)

NoOwner == [pid |-> 0, name |-> ""]
NoAnswer == [has |-> FALSE, rows |-> <<>>]

(* buildInodeMap 105-115: the descriptors of one process go into the map *)
AddFds_anyTarget(inodeMap, pid, procName, fds) ==
    LET inos == {t.ino : t \in fds}
    IN  [i \in DOMAIN inodeMap \cup inos |->
            IF i \in inos THEN [pid |-> pid, name |-> procName] ELSE inodeMap[i]]

AddFds(inodeMap, pid, procName, fds) ==
    LET inos == {t.ino : t \in {u \in fds : u.kind = "socket"}}
    IN  [i \in DOMAIN inodeMap \cup inos |->
            IF i \in inos THEN [pid |-> pid, name |-> procName] ELSE inodeMap[i]]

(* buildInodeMap 80-116: the loop over the entries of /proc, from entry k on *)
RECURSIVE ScanEntries(_, _, _)
ScanEntries(procs, k, inodeMap) ==
    IF k > Len(ProcEntries) THEN inodeMap
    ELSE LET pid == ProcEntries[k]
         IN  ScanEntries(procs, k + 1,
                IF pid \notin DOMAIN procs \/ ~procs[pid].fdOk THEN inodeMap
                ELSE AddFds(inodeMap, pid, procs[pid].comm, procs[pid].fds))

buildInodeMap(procs) == ScanEntries(procs, 1, [i \in {} |-> NoOwner])

(* parseNetSockets 133-165: one Socket per row of at least 10 fields *)
RECURSIVE parseNetSockets(_, _)
parseNetSockets(table, inodeMap) ==
    IF table = <<>> THEN <<>>
    ELSE LET row == Head(table)
             proc == IF row.inode \in DOMAIN inodeMap THEN inodeMap[row.inode] ELSE NoOwner
             rest == parseNetSockets(Tail(table), inodeMap)
         IN  IF row.nf < 10 THEN rest
             ELSE <<[LocalAddr |-> parseAddr(row.addr).ip,
                     LocalPort |-> parseAddr(row.addr).port,
                     Inode |-> row.inode, PID |-> proc.pid, ProcessName |-> proc.name]>>
                    \o rest

(* GetSocketInfo 33-70 on one table *)
GetSocketInfo ==
    /\ sockOut' = [has |-> TRUE, rows |-> parseNetSockets(nettab, buildInodeMap(procfs))]
    /\ UNCHANGED <<procfs, nettab>>
    /\ UNCHANGED <<authVars, rateVars, netVars, sseVars, decVars, lockVars>>

(* a process opens or closes descriptors, or its fd directory changes readability *)
ProcChange(pid, rec) ==
    /\ rec.comm = Comm[pid]
    /\ rec # procfs[pid]
    /\ procfs' = [procfs EXCEPT ![pid] = rec]
    /\ sockOut' = NoAnswer
    /\ UNCHANGED nettab
    /\ UNCHANGED <<authVars, rateVars, netVars, sseVars, decVars, lockVars>>

(* the kernel's connection table gains a row *)
RowAdded(row) ==
    /\ Len(nettab) < MaxRows
    /\ nettab' = Append(nettab, row)
    /\ sockOut' = NoAnswer
    /\ UNCHANGED procfs
    /\ UNCHANGED <<authVars, rateVars, netVars, sseVars, decVars, lockVars>>

(* the kernel's connection table loses its first row *)
RowGone ==
    /\ nettab # <<>>
    /\ nettab' = Tail(nettab)
    /\ sockOut' = NoAnswer
    /\ UNCHANGED procfs
    /\ UNCHANGED <<authVars, rateVars, netVars, sseVars, decVars, lockVars>>

(***************************************************************************)
(* The rows the decoders of a connection-table row are run on one by one.  *)
(***************************************************************************)
HexBytes == {<<"0", "0">>, <<"0", "1">>, <<"7", "F">>, <<"F", "F">>, <<"0", "a">>}
Hex8 == {a \o b \o c \o d : a \in HexBytes, b \in HexBytes, c \in HexBytes, d \in HexBytes}
HexGroups ==
    {<<"0", "0", "0", "0", "0", "0", "0", "0">>, <<"F", "F", "F", "F", "0", "0", "0", "0">>,
     <<"0", "1", "0", "0", "0", "0", "7", "F">>, <<"B", "8", "0", "D", "0", "1", "2", "0">>}
Hex32 == {a \o b \o c \o d : a \in HexGroups, b \in HexGroups, c \in HexGroups, d \in HexGroups}
HexOther == {<<>>, <<"7", "F">>, <<"0", "1", "0", "0", "0", "0", "7", "F", "0">>}
PortFields == {<<"0", "0", "5", "0">>, <<"1", "F", "9", "0">>}
StateCodes ==
    {"01", "02", "03", "04", "05", "06", "07", "08", "09", "0A", "0B", "0C", "0a", "00", "A"}
RawRows ==
    {[addr |-> <<h, pf>>, st |-> c] :
        h \in Hex8 \cup Hex32 \cup HexOther, pf \in PortFields, c \in StateCodes}

NoRow == [has |-> FALSE, ip |-> [form |-> "raw", b |-> <<>>], port |-> 0, state |-> ""]

(* parseNetSockets 144-146: the address and the state of a row are decoded *)
DecodeRow ==
    /\ ~decodedRow.has
    /\ decodedRow' = [has |-> TRUE, ip |-> parseAddr(rawRow.addr).ip,
                      port |-> parseAddr(rawRow.addr).port,
                      state |-> parseState(rawRow.st)]
    /\ UNCHANGED rawRow
    /\ UNCHANGED <<authVars, rateVars, netVars, sseVars, sockVars, lockVars>>

(***************************************************************************)
(* The locks: am.mu (a sync.RWMutex, auth.go 35) and the collectors'       *)
(* processMutex, cpuMutex and diskMutex (sync.Mutex).  A goroutine runs    *)
(* one call, given as the sequence of its lock operations, its accesses to *)
(* the guarded state ("read" or "write" of the named object) and its       *)
(* blocking calls ("io": a read under /proc, rand.Read, a read from or a   *)
(* write to the client), in program order.  An access and a blocking call  *)
(* take time: the goroutine enters the step and later leaves it.           *)
(***************************************************************************)
Mutexes == {"am.mu", "processMutex", "cpuMutex", "diskMutex"}
Goroutines == {"g1", "g2"}

(* Login 100-110 (and 116-126): generateToken, then the insert under Lock *)
LoginSteps ==
    <<<<"io", "rand">>, <<"Lock", "am.mu">>, <<"write", "sessions">>, <<"Unlock", "am.mu">>>>

(* Logout 133-137 *)
LogoutSteps ==
    <<<<"Lock", "am.mu">>, <<"write", "sessions">>, <<"Unlock", "am.mu">>>>

(* ValidateSession 139-154: the lookup under RLock; am.Logout for an expired session *)
ValidateSessionSteps(expired) ==
    <<<<"RLock", "am.mu">>, <<"read", "sessions">>, <<"RUnlock", "am.mu">>>>
        \o (IF expired THEN LogoutSteps ELSE <<>>)

(* GetSession 156-160: the lookup under RLock, released by the defer *)
GetSessionSteps ==
    <<<<"RLock", "am.mu">>, <<"read", "sessions">>, <<"RUnlock", "am.mu">>>>

(* CleanupExpiredSessions 269-280: the whole loop under Lock *)
CleanupSteps ==
    <<<<"Lock", "am.mu">>, <<"write", "sessions">>, <<"Unlock", "am.mu">>>>

(* getProcessBasic 169-230: stat is read, the ticks are exchanged under
   processMutex, then statm and status are read *)
getProcessBasicSteps_readsUnderLock ==
    <<<<"Lock", "processMutex">>, <<"io", "/proc">>, <<"write", "previousCPUTicks">>,
      <<"Unlock", "processMutex">>, <<"io", "/proc">>>>

getProcessBasicSteps ==
    <<<<"io", "/proc">>, <<"Lock", "processMutex">>, <<"write", "previousCPUTicks">>,
      <<"Unlock", "processMutex">>, <<"io", "/proc">>>>

(* GetProcessList 121-163 with one process in /proc *)
GetProcessListSteps ==
    <<<<"io", "/proc">>, <<"Lock", "processMutex">>, <<"read", "previousTime">>,
      <<"Unlock", "processMutex">>>>
        \o getProcessBasicSteps
        \o <<<<"Lock", "processMutex">>, <<"write", "previousTime">>,
             <<"Unlock", "processMutex">>>>

(* GetCPUInfo 62-163 with calculateCPUUsage 171-175 for one line of /proc/stat *)
GetCPUInfoSteps ==
    <<<<"io", "/proc">>, <<"Lock", "cpuMutex">>, <<"write", "previousCPUTimes">>,
      <<"Unlock", "cpuMutex">>, <<"io", "/proc">>>>

(* GetDiskInfo 45-172 with one device line of /proc/diskstats *)
GetDiskInfoSteps ==
    <<<<"io", "/proc">>, <<"Lock", "diskMutex">>, <<"write", "previousDiskIO">>,
      <<"Unlock", "diskMutex">>, <<"io", "/proc">>>>

(* what a goroutine of the server runs: a request through its handler to the
   written answer, a sample of a stream session, or the sweep *)
ToClient == <<<<"io", "client">>>>
Calls ==
    [login |-> ToClient \o LoginSteps \o ToClient,
     logout |-> LogoutSteps \o ToClient,
     status |-> GetSessionSteps \o ToClient,
     view |-> ValidateSessionSteps(FALSE) \o GetSessionSteps \o ToClient,
     viewExpired |-> ValidateSessionSteps(TRUE) \o GetSessionSteps \o ToClient,
     sweep |-> CleanupSteps,
     processes |-> GetProcessListSteps \o ToClient,
     detail |-> getProcessBasicSteps \o ToClient,
     cpu |-> GetCPUInfoSteps \o ToClient,
     disk |-> GetDiskInfoSteps \o ToClient]

IdleGor == [call |-> "none", pc |-> 0, in |-> FALSE]
Free == [w |-> "", r |-> {}]

AtStep(g) == gor[g].call # "none" /\ gor[g].pc <= Len(Calls[gor[g].call])
StepOf(g) == Calls[gor[g].call][gor[g].pc]
Advance(g) == [gor EXCEPT ![g] = [@ EXCEPT !.pc = @ + 1, !.in = FALSE]]

(* sync.RWMutex: Lock waits for the writer and every reader, RLock for the writer *)
CanLock_ignoresReaders(m) == locks[m].w = ""

CanLock(m) == locks[m].w = "" /\ locks[m].r = {}

CanRLock_ignoresWriter(m) == TRUE

CanRLock(m) == locks[m].w = ""

(* the server starts a goroutine for a request, a stream sample or the sweep *)
Go(g, c) ==
    /\ gor[g].call = "none"
    /\ gor' = [gor EXCEPT ![g] = [call |-> c, pc |-> 1, in |-> FALSE]]
    /\ UNCHANGED locks
    /\ UNCHANGED <<authVars, rateVars, netVars, sseVars, sockVars, decVars>>

Lock(g) ==
    /\ AtStep(g) /\ StepOf(g)[1] = "Lock"
    /\ CanLock(StepOf(g)[2])
    /\ locks' = [locks EXCEPT ![StepOf(g)[2]].w = g]
    /\ gor' = Advance(g)
    /\ UNCHANGED <<authVars, rateVars, netVars, sseVars, sockVars, decVars>>

Unlock(g) ==
    /\ AtStep(g) /\ StepOf(g)[1] = "Unlock"
    /\ locks' = [locks EXCEPT ![StepOf(g)[2]].w = ""]
    /\ gor' = Advance(g)
    /\ UNCHANGED <<authVars, rateVars, netVars, sseVars, sockVars, decVars>>

RLock(g) ==
    /\ AtStep(g) /\ StepOf(g)[1] = "RLock"
    /\ CanRLock(StepOf(g)[2])
    /\ locks' = [locks EXCEPT ![StepOf(g)[2]].r = @ \cup {g}]
    /\ gor' = Advance(g)
    /\ UNCHANGED <<authVars, rateVars, netVars, sseVars, sockVars, decVars>>

RUnlock(g) ==
    /\ AtStep(g) /\ StepOf(g)[1] = "RUnlock"
    /\ locks' = [locks EXCEPT ![StepOf(g)[2]].r = @ \ {g}]
    /\ gor' = Advance(g)
    /\ UNCHANGED <<authVars, rateVars, netVars, sseVars, sockVars, decVars>>

(* the goroutine starts an access to the guarded state, or a blocking call *)
Enter(g) ==
    /\ AtStep(g) /\ StepOf(g)[1] \in {"read", "write", "io"}
    /\ ~gor[g].in
    /\ gor' = [gor EXCEPT ![g] = [@ EXCEPT !.in = TRUE]]
    /\ UNCHANGED locks
    /\ UNCHANGED <<authVars, rateVars, netVars, sseVars, sockVars, decVars>>

(* the access is done, the blocking call has returned *)
Leave(g) ==
    /\ AtStep(g) /\ gor[g].in
    /\ gor' = Advance(g)
    /\ UNCHANGED locks
    /\ UNCHANGED <<authVars, rateVars, netVars, sseVars, sockVars, decVars>>

(* the call returns *)
Return(g) ==
    /\ gor[g].call # "none" /\ ~AtStep(g)
    /\ gor' = [gor EXCEPT ![g] = IdleGor]
    /\ UNCHANGED locks
    /\ UNCHANGED <<authVars, rateVars, netVars, sseVars, sockVars, decVars>>

(***************************************************************************)
(* The specifications.  Spec runs the auth engine with one operation at a  *)
(* time (each returns before the next one starts); SpecConc lets logins,   *)
(* logouts, sweeps and the clock run between any two accesses a request    *)
(* makes to the session map.  SpecProc runs the process collectors one     *)
(* call at a time while the kernel counters and the clock move; in         *)
(* SpecProcConc two calls overlap.                                         *)
(***************************************************************************)
NetIdle ==
    /\ netdev = [i \in Ifaces |-> 0]
    /\ previousNetStats = [i \in {} |-> 0]
    /\ nsmp = [s \in NetSamplers |-> IdleNet]
    /\ netFatal = FALSE

SseIdle ==
    /\ sse = [s \in Streams |-> IdleSse]
    /\ refresh = DefaultRefresh
    /\ leaked = 0

SockIdle ==
    /\ procfs = [pid \in ScanPids |-> [comm |-> Comm[pid], fdOk |-> TRUE, fds |-> {}]]
    /\ nettab = <<>>
    /\ sockOut = NoAnswer

DecIdle ==
    /\ rawRow = [addr |-> <<<<>>, <<>>>>, st |-> ""]
    /\ decodedRow = NoRow

LockIdle ==
    /\ locks = [m \in Mutexes |-> Free]
    /\ gor = [g \in Goroutines |-> IdleGor]

ExtIdle == NetIdle /\ SseIdle /\ SockIdle /\ DecIdle /\ LockIdle

RateIdle ==
    /\ kticks = [p \in Pids |-> 0]
    /\ previousCPUTicks = [p \in {} |-> 0]
    /\ previousTime = 0
    /\ observedAt = [p \in {} |-> 0]
    /\ listTicks = [p \in {} |-> 0]
    /\ wall = 0
    /\ smp = [s \in Samplers |-> IdleSmp]

AuthStart ==
    /\ am \in Configs
    /\ sessions = [t \in {} |-> 0]
    /\ issued = [t \in {} |-> 0]
    /\ loggedOut = {}
    /\ now = 0
    /\ nextToken = 1
    /\ req = [r \in Reqs |-> IdleReq]

(* a server in admin mode with no request in the auth engine *)
AdminOnly == AuthStart /\ am = NewAuthManager("", "", "", "", FALSE, TRUE) /\ conc = TRUE

Init == AuthStart /\ conc = FALSE /\ RateIdle /\ ExtIdle

InitConc == AuthStart /\ conc = TRUE /\ RateIdle /\ ExtIdle

InitProc == AuthStart /\ am = NewAuthManager("", "", "", "", FALSE, TRUE)
                /\ conc = FALSE /\ RateIdle /\ ExtIdle

InitProcConc == AuthStart /\ am = NewAuthManager("", "", "", "", FALSE, TRUE)
                    /\ conc = TRUE /\ RateIdle /\ ExtIdle

Next ==
    \/ \E r \in Reqs, route \in Routes, cookie \in PresentedTokens,
          authorization \in PresentedTokens, hdrs \in ClientHeaders :
            Arrive(r, route, cookie, authorization, hdrs)
    \/ \E r \in Reqs : VsRead(r)
    \/ \E r \in Reqs : VsTime(r)
    \/ \E r \in Reqs : VsLogout(r)
    \/ \E r \in Reqs : IsRW(r)
    \/ \E r \in Reqs, method \in Methods, parts \in KillPaths, body \in Bodies,
          osErr \in BOOLEAN : KillHandler(r, method, parts, body, osErr)
    \/ \E r \in Reqs : OtherHandler(r)
    \/ \E r \in Reqs : Finish(r)
    \/ \E r \in Reqs, method \in Methods, bodyOk \in BOOLEAN, username \in Usernames,
          password \in Passwords : HandleLogin(r, method, bodyOk, username, password)
    \/ \E token \in PresentedTokens : HandleLogout(token)
    \/ \E r \in Reqs, cookie \in PresentedTokens : HandleAuthStatus(r, cookie)
    \/ Sweep
    \/ Tick

NextProc ==
    \/ \E s \in Samplers : ListStart(s)
    \/ \E s \in Samplers, pid \in Pids : DetailStart(s, pid)
    \/ \E s \in Samplers : ReadStat(s)
    \/ \E s \in Samplers : UpdateTicks(s)
    \/ \E s \in Samplers : ListEnd(s)
    \/ \E s \in Samplers : SmpReturn(s)
    \/ \E p \in Pids : ProcRuns(p)
    \/ \E p \in Pids, t \in 0..MaxTicks : PidReused(p, t)
    \/ WallTick

Spec == Init /\ [][Next]_vars

SpecConc == InitConc /\ [][Next]_vars

SpecProc == InitProc /\ [][NextProc]_vars

SpecProcConc == InitProcConc /\ [][NextProc]_vars

(* the process collectors overlap while every kernel counter only grows *)
NextProcGrow ==
    \/ \E s \in Samplers : ListStart(s)
    \/ \E s \in Samplers, pid \in Pids : DetailStart(s, pid)
    \/ \E s \in Samplers : ReadStat(s)
    \/ \E s \in Samplers : UpdateTicks(s)
    \/ \E s \in Samplers : ListEnd(s)
    \/ \E s \in Samplers : SmpReturn(s)
    \/ \E p \in Pids : ProcRuns(p)
    \/ WallTick

SpecProcGrow == InitProcConc /\ [][NextProcGrow]_vars

(* concurrent callers of GetNetworkInfo: HTTP requests and stream sessions *)
NextNet ==
    \/ \E s \in NetSamplers : NetScan(s)
    \/ \E s \in NetSamplers : NetLoad(s)
    \/ \E s \in NetSamplers : NetStore(s)
    \/ \E s \in NetSamplers : NetReturn(s)
    \/ NetFault
    \/ NetTraffic

(* the stream endpoint of a server started with one of the refresh configurations *)
NextSSE ==
    \/ \E s \in Streams, flusherOk \in BOOLEAN : Connect(s, flusherOk)
    \/ \E s \in Streams, collErr \in BOOLEAN, marshalErr \in BOOLEAN,
          eventLineErr \in BOOLEAN, dataLineErr \in BOOLEAN :
            BurstStep(s, collErr, marshalErr, eventLineErr, dataLineErr)
    \/ \E s \in Streams, cat \in CategorySet, collErr \in BOOLEAN, marshalErr \in BOOLEAN,
          eventLineErr \in BOOLEAN, dataLineErr \in BOOLEAN :
            TimerFire(s, cat, collErr, marshalErr, eventLineErr, dataLineErr)
    \/ \E s \in Streams : CtxCancel(s)
    \/ \E s \in Streams : LoopCancel(s)
    \/ \E s \in Streams : Reap(s)

InitSSE ==
    /\ AdminOnly /\ RateIdle /\ NetIdle /\ SockIdle /\ DecIdle /\ LockIdle
    /\ sse = [s \in Streams |-> IdleSse]
    /\ refresh \in RefreshConfigs
    /\ leaked = 0

SpecSSE == InitSSE /\ [][NextSSE]_vars

(* the stream endpoint when every call in progress returns and the select
   among its ready cases is fair: a burst goes on to its next category, and a
   loop whose context is done takes that case *)
FairSSE ==
    \A s \in Streams :
        /\ WF_vars(LoopCancel(s))
        /\ WF_vars(\E collErr \in BOOLEAN, marshalErr \in BOOLEAN, eventLineErr \in BOOLEAN,
                      dataLineErr \in BOOLEAN :
                        BurstStep(s, collErr, marshalErr, eventLineErr, dataLineErr))

SpecSSELive == InitSSE /\ [][NextSSE]_vars /\ FairSSE

(* socket scans over every process table and connection table of the bounds *)
NextSock ==
    \/ GetSocketInfo
    \/ \E pid \in ScanPids, rec \in ProcRecords : ProcChange(pid, rec)
    \/ \E row \in TableRows : RowAdded(row)
    \/ RowGone

InitSock ==
    /\ AdminOnly /\ RateIdle /\ NetIdle /\ SseIdle /\ DecIdle /\ LockIdle
    /\ procfs \in ProcTables
    /\ nettab \in NetTables
    /\ sockOut = NoAnswer

SpecSock == InitSock /\ [][NextSock]_vars

(* the decoders run on every row of the bounds *)
NextDec == DecodeRow

InitDec ==
    /\ AdminOnly /\ RateIdle /\ NetIdle /\ SseIdle /\ SockIdle /\ LockIdle
    /\ rawRow \in RawRows
    /\ decodedRow = NoRow

SpecDec == InitDec /\ [][NextDec]_vars

(* two goroutines of the server run any two calls side by side *)
NextLock ==
    \/ \E g \in Goroutines, c \in DOMAIN Calls : Go(g, c)
    \/ \E g \in Goroutines : Lock(g)
    \/ \E g \in Goroutines : Unlock(g)
    \/ \E g \in Goroutines : RLock(g)
    \/ \E g \in Goroutines : RUnlock(g)
    \/ \E g \in Goroutines : Enter(g)
    \/ \E g \in Goroutines : Leave(g)
    \/ \E g \in Goroutines : Return(g)

InitLock == AdminOnly /\ RateIdle /\ ExtIdle

SpecLock == InitLock /\ [][NextLock]_vars

InitNet == AdminOnly /\ RateIdle /\ ExtIdle

SpecNet == InitNet /\ [][NextNet]_vars

(***************************************************************************)
(* What the claims speak of.                                               *)
(***************************************************************************)
(* the token denotes a session that is present and not past its expiry *)
ValidSession(t) == t \in DOMAIN sessions /\ now <= sessions[t].ExpiresAt

ValidReadWrite(t) == ValidSession(t) /\ sessions[t].ReadWrite

(* the token came from a successful login, was not logged out since, and at
   most 24 hours have passed since that login *)
SpecValid(t) ==
    /\ t \in DOMAIN issued
    /\ t \notin loggedOut
    /\ now <= issued[t].at + 24

(* the tier a submitted username and plaintext password match, read-write first *)
MatchesReadWrite(u, p) ==
    am.hasReadWrite /\ u = am.username /\ am.password = "md5:syspeek_" \o p

MatchesReadOnly(u, p) ==
    am.hasReadOnly /\ u = am.readOnlyUsername /\ am.readOnlyPassword = "md5:syspeek_" \o p

(* a login that reached AuthManager.Login *)
LoginTried(q) == q.pc = "done" /\ q.route = "login" /\ q.user # ""

(* C1: a mutating endpoint's handler is invoked if and only if admin mode is
   on or the request's token validates to a read-write session, for every
   configuration of the flags and the tiers and every token *)
C1_MutatingIffAdminOrReadWrite ==
    \A r \in Reqs :
        (req[r].pc = "done" /\ Mutating(req[r].route))
            => (req[r].invoked <=> (am.isAdmin \/ ValidReadWrite(req[r].token)))

C1_Witness ==
    \E r \in Reqs :
        /\ req[r].pc = "done" /\ req[r].route = "action"
        /\ ~am.isAdmin /\ am.isPublic
        /\ req[r].token = NoToken
        /\ ~req[r].invoked
        /\ \E t \in DOMAIN sessions : ValidReadWrite(t)

(* C2: a viewing endpoint's handler is invoked if and only if admin mode is
   on, or public mode is on, or the request's token validates to a session
   of either role *)
C2_ViewIffAdminOrPublicOrSession ==
    \A r \in Reqs :
        (req[r].pc = "done" /\ req[r].route = "view")
            => (req[r].invoked <=>
                    (am.isAdmin \/ am.isPublic \/ ValidSession(req[r].token)))

C2_Witness ==
    \E r \in Reqs :
        /\ req[r].pc = "done" /\ req[r].route = "view"
        /\ ~IsEnabled /\ ~am.isAdmin
        /\ req[r].invoked

(* C3: a POST to the kill endpoint whose target pid is the server's own pid
   is answered forbidden and calls KillProcess for no pid, in admin mode and
   with a read-write session alike, whatever the body; and no call of
   KillProcess ever names the server's pid *)
C3_SelfTargetRefused ==
    \A r \in Reqs :
        /\ (req[r].pc = "done" /\ req[r].route = "kill" /\ req[r].invoked
                /\ req[r].method = "POST" /\ req[r].target = ServicePID)
            => (req[r].status = StatusForbidden /\ ~req[r].kill.killed)
        /\ req[r].kill.killed => req[r].kill.pid # ServicePID

C3_Witness ==
    \E r \in Reqs :
        /\ req[r].pc = "done" /\ req[r].route = "kill" /\ req[r].invoked
        /\ req[r].method = "POST" /\ req[r].target = ServicePID
        /\ ~am.isAdmin /\ ValidReadWrite(req[r].token)

(* C4: with no read-write credentials configured and admin mode off, no
   mutating handler is ever invoked and no read-write session ever exists *)
C4_ReadOnlyWithoutReadWriteTier ==
    (~am.hasReadWrite /\ ~am.isAdmin)
        => /\ \A r \in Reqs : Mutating(req[r].route) => ~req[r].invoked
           /\ \A t \in DOMAIN sessions : ~sessions[t].ReadWrite

C4_Witness ==
    \E r \in Reqs :
        /\ ~am.hasReadWrite /\ ~am.isAdmin
        /\ req[r].pc = "done" /\ Mutating(req[r].route)
        /\ ValidSession(req[r].token)
        /\ req[r].status = StatusForbidden

(* C5: ValidateSession(token) returns true if and only if the token was
   returned by a successful login, has not been logged out since, and the
   time is not later than 24 hours after that login; and the store holds an
   unexpired session for exactly those tokens *)
C5_ValidateIffLiveLogin ==
    /\ \A r \in Reqs :
            req[r].validated => (req[r].isAuth <=> SpecValid(req[r].token))
    /\ \A t \in {NoToken, Forged} \cup (1..MaxTokens) : ValidSession(t) <=> SpecValid(t)

C5_Witness ==
    \E r \in Reqs :
        /\ req[r].validated /\ req[r].isAuth
        /\ now = issued[req[r].token].at + 24
        /\ loggedOut # {}

(* C6: a login matching a tier succeeds with that tier's role (read-write
   tried first), stores exactly one new session under the returned token,
   leaves every other session as it was, and the token is at once valid with
   IsReadWrite equal to the role *)
C6_LoginResult ==
    \A r \in Reqs :
        LoginTried(req[r]) =>
            /\ req[r].ok <=> (MatchesReadWrite(req[r].user, req[r].pass)
                                \/ MatchesReadOnly(req[r].user, req[r].pass))
            /\ req[r].ok => (req[r].rw <=> MatchesReadWrite(req[r].user, req[r].pass))

C6_LoginStep ==
    \A r \in Reqs :
        (req[r].pc = "idle" /\ LoginTried(req'[r]) /\ req'[r].ok) =>
            LET tok == req'[r].minted
            IN  /\ tok \notin DOMAIN sessions
                /\ DOMAIN sessions' = DOMAIN sessions \cup {tok}
                /\ \A t \in DOMAIN sessions : sessions'[t] = sessions[t]
                /\ sessions'[tok].Username = req'[r].user
                /\ sessions'[tok].ReadWrite = req'[r].rw
                /\ now' <= sessions'[tok].ExpiresAt
                /\ IsReadWrite(sessions', tok) = req'[r].rw
                /\ req'[r].cookie = tok

C6_LoginStoresOneSession == [](C6_LoginResult) /\ [][C6_LoginStep]_vars

C6_Witness ==
    \E r \in Reqs :
        /\ LoginTried(req[r]) /\ req[r].ok /\ req[r].rw
        /\ MatchesReadOnly(req[r].user, req[r].pass)
        /\ Cardinality(DOMAIN sessions) = 2
        /\ ValidSession(req[r].minted)

(* C7: every login that fails on its credentials gets the same answer (no
   token, no role, 401 "Invalid credentials", no cookie), for an unknown
   username and for a configured username with a wrong password alike, and
   leaves the session store as it was *)
C7_GenericAnswer ==
    \A r \in Reqs :
        (LoginTried(req[r]) /\ ~req[r].ok) =>
            /\ req[r].minted = NoToken /\ ~req[r].rw /\ req[r].cookie = NoToken
            /\ req[r].status = StatusUnauthorized
            /\ req[r].message = "Invalid credentials"

C7_FailStep ==
    \A r \in Reqs :
        (req[r].pc = "idle" /\ LoginTried(req'[r]) /\ ~req'[r].ok) =>
            /\ sessions' = sessions
            /\ nextToken' = nextToken

C7_FailedLoginsIndistinguishable == [](C7_GenericAnswer) /\ [][C7_FailStep]_vars

C7_Witness ==
    \E r \in Reqs :
        /\ LoginTried(req[r]) /\ ~req[r].ok
        /\ am.hasReadWrite /\ req[r].user = am.username
        /\ sessions # <<>>

(* C8, as claimed: on a mutating endpoint with admin mode off the middleware
   answers forbidden only when the token denotes a session whose role is
   read-only, also when a logout or a sweep of the token runs during the
   request *)
C8_ForbiddenOnlyForReadOnlySession ==
    \A r \in Reqs :
        (req[r].pc = "done" /\ Mutating(req[r].route) /\ ~am.isAdmin
                /\ ~req[r].invoked /\ req[r].status = StatusForbidden)
            => (req[r].token \in DOMAIN issued /\ ~issued[req[r].token].rw)

(* C9: when ValidateSession has returned false for an expired token the map
   no longer holds the token, and the removal changed no other session *)
C9_ExpiredGone ==
    \A r \in Reqs : req[r].sawExpired => req[r].token \notin DOMAIN sessions

C9_EvictStep ==
    \A r \in Reqs :
        (req[r].pc = "vs_logout" /\ req'[r].pc # "vs_logout") =>
            /\ ~req'[r].isAuth
            /\ DOMAIN sessions' = DOMAIN sessions \ {req[r].token}
            /\ \A t \in DOMAIN sessions' : sessions'[t] = sessions[t]

C9_LazyEviction == [](C9_ExpiredGone) /\ [][C9_EvictStep]_vars

C9_Witness ==
    \E r \in Reqs :
        /\ req[r].sawExpired
        /\ req[r].token \in DOMAIN issued
        /\ \E t \in DOMAIN sessions : ValidSession(t)

(* C10, as claimed: a reported rate is never negative and never a wrapped
   difference, and when the counter read is below the stored previous value
   the rate is zero *)
C10_RateClampedAtZero ==
    \A s \in Samplers :
        smp[s].rate.has =>
            /\ smp[s].rate.hi = 0
            /\ smp[s].rate.lo >= 0
            /\ (smp[s].ticks < smp[s].prev => smp[s].rate.lo = 0)

(* C11: the first observation of a key with no prior entry stores the
   observed counter and reports a rate of zero, never the raw counter taken
   against an assumed zero baseline *)
C11_FirstIsZero ==
    \A s \in Samplers :
        (smp[s].pc \in {"end", "done"} /\ smp[s].prev = 0 - 1)
            => (smp[s].rate.hi = 0 /\ smp[s].rate.lo = 0)

C11_FirstStores ==
    \A s \in Samplers :
        (smp[s].pc = "update" /\ smp'[s].pc # "update"
                /\ smp[s].pid \notin DOMAIN previousCPUTicks)
            => /\ smp[s].pid \in DOMAIN previousCPUTicks'
               /\ previousCPUTicks'[smp[s].pid] = smp[s].ticks

C11_FirstObservationZero == [](C11_FirstIsZero) /\ [][C11_FirstStores]_vars

C11_Witness ==
    \E s \in Samplers :
        /\ smp[s].pc = "done" /\ smp[s].prev = 0 - 1
        /\ smp[s].ticks > 0
        /\ previousCPUTicks[smp[s].pid] = smp[s].ticks

(* C12, as claimed: every rate after the first is the counter delta since the
   key's previous observation divided by the time elapsed since that same
   observation, floored to the epsilon *)
C12_RateOverOwnInterval ==
    \A s \in Samplers :
        smp[s].rate.has =>
            smp[s].rate.den = Elapsed(smp[s].at, smp[s].prevAt)

(* C20, as claimed: while the kernel counter only grows, no interleaving of
   two overlapping samplers makes one of them report a wrapped difference *)
C20_NoWrapWhileCounterGrows ==
    \A s \in Samplers : smp[s].rate.has => smp[s].rate.hi = 0

(* C19, as claimed: the read of the previous value, the computation and the
   write-back of an observation are one critical section, so no two samplers
   are ever both between their read of a key's previous value and their
   write-back, and no unsynchronized access is there for the runtime to trap *)
C19_ObservationAtomic ==
    /\ \A s, t \in NetSamplers :
        (s # t /\ nsmp[s].pc = "store" /\ nsmp[t].pc = "store")
            => nsmp[s].iface # nsmp[t].iface
    /\ ~netFatal

(* the tickers that are running, and the connections whose HandleSSE has
   not returned *)
RECURSIVE TickersOf(_)
TickersOf(S) ==
    IF S = {} THEN 0
    ELSE LET s == CHOOSE x \in S : TRUE
         IN  Cardinality(sse[s].tickers) + TickersOf(S \ {s})

RunningTickers == leaked + TickersOf(Streams)

LiveStreams == {s \in Streams : sse[s].pc \in {"burst", "loop"}}

(* C13, as claimed: no ticker a call of HandleSSE created is running once the
   call is over, so the running tickers are eight per live session *)
C13_TickersMatchSessions ==
    /\ \A s \in Streams : sse[s].pc \in {"idle", "closed"} => sse[s].tickers = {}
    /\ RunningTickers = NumCategories * Cardinality(LiveStreams)

(* C14: a failed write of the event line or of the data line, in the initial
   burst or in the loop, ends the session at once: the handler has returned
   with its tickers stopped, the failing frame was not completed, and nothing
   more happens on the connection *)
C14_WriteErrorCloses ==
    \A s \in Streams :
        sse[s].wfail =>
            /\ sse[s].pc = "closed" /\ sse[s].cause = "write"
            /\ sse[s].tickers = {}
            /\ sse[s].lines < 2

C14_NothingAfter ==
    \A s \in Streams :
        (sse[s].wfail /\ sse'[s] # sse[s]) => sse'[s] = IdleSse

C14_WriteErrorEndsSession == [](C14_WriteErrorCloses) /\ [][C14_NothingAfter]_vars

C14_Witness ==
    \E s \in Streams :
        /\ sse[s].wfail /\ sse[s].lines = 1
        /\ sse[s].timed
        /\ \E t \in Streams : sse[t].pc = "loop"

(* C15, as claimed: a session that has reached its event loop, or has written
   a timer-driven frame, has written one burst frame for each of the eight
   categories *)
C15_BurstCoversEveryCategory ==
    \A s \in Streams :
        (sse[s].pc = "loop" \/ sse[s].timed) => sse[s].burst = NumCategories

(* C16, as claimed: a session that was set up ends only because its context
   was cancelled or a write on the connection failed *)
C16_OnlyConnectionFailuresEnd ==
    \A s \in Streams :
        (sse[s].pc = "closed" /\ sse[s].cause \notin {"noflusher", "panic"})
            => sse[s].cause \in {"cancel", "write"}

(* the scanned processes that hold a descriptor to the socket with this inode *)
Holders(inode) ==
    {pid \in ScanPids :
        procfs[pid].fdOk /\ [kind |-> "socket", ino |-> inode] \in procfs[pid].fds}

(* the inode fields of the rows that have at least 10 fields, in table order *)
WellFormed(row) == row.nf >= 10
RowInodes == [k \in 1..Len(SelectSeq(nettab, WellFormed)) |->
                SelectSeq(nettab, WellFormed)[k].inode]

(* C17: every emitted row whose inode some scanned process holds reports the
   pid and name of such a process, every other row reports pid 0 and the
   empty name, and the rows are those of the table, in its order *)
C17_OwnerFromSameScan ==
    sockOut.has =>
        /\ Len(sockOut.rows) = Len(RowInodes)
        /\ \A k \in 1..Len(sockOut.rows) :
            LET row == sockOut.rows[k]
            IN  /\ row.Inode = RowInodes[k]
                /\ IF Holders(row.Inode) # {}
                   THEN /\ row.PID \in Holders(row.Inode)
                        /\ row.ProcessName = procfs[row.PID].comm
                   ELSE row.PID = 0 /\ row.ProcessName = ""

C17_Witness ==
    /\ sockOut.has
    /\ Len(sockOut.rows) = 2
    /\ Cardinality(Holders(sockOut.rows[1].Inode)) = 2
    /\ sockOut.rows[2].PID = 0
    /\ \E pid \in ScanPids :
        [kind |-> "pipe", ino |-> sockOut.rows[2].Inode] \in procfs[pid].fds

(* the reference decoder: byte k (from 1) of a hex field, and the bytes of a
   field with the bytes of every group of four reversed *)
ByteAt(hex, k) == 16 * HexVal(hex[2 * k - 1]) + HexVal(hex[2 * k])
AllHex(hex) == \A k \in 1..Len(hex) : IsHex(hex[k])
GroupReversed(hex) ==
    [n \in 1..(Len(hex) \div 2) |-> ByteAt(hex, 4 * ((n - 1) \div 4) + 4 - ((n - 1) % 4))]
StateTable ==
    {<<"01", "ESTABLISHED">>, <<"02", "SYN_SENT">>, <<"03", "SYN_RECV">>,
     <<"04", "FIN_WAIT1">>, <<"05", "FIN_WAIT2">>, <<"06", "TIME_WAIT">>, <<"07", "CLOSE">>,
     <<"08", "CLOSE_WAIT">>, <<"09", "LAST_ACK">>, <<"0A", "LISTEN">>, <<"0B", "CLOSING">>}

(* C18, as claimed: 8 hex digits decode to the dotted IPv4 address of the 4
   bytes reversed, 32 hex digits to the IPv6 address of the 16 bytes with each
   32-bit group byte-reversed, and a state code through the table, any other
   code unchanged *)
C18_DecodingMatchesReference ==
    decodedRow.has =>
        LET hex == rawRow.addr[1]
        IN  /\ (Len(hex) = 8 /\ AllHex(hex))
                => decodedRow.ip = [form |-> "dotted", b |-> GroupReversed(hex)]
            /\ (Len(hex) = 32 /\ AllHex(hex))
                => decodedRow.ip = [form |-> "ipv6", b |-> GroupReversed(hex)]
            /\ \A e \in StateTable : rawRow.st = e[1] => decodedRow.state = e[2]
            /\ (\A e \in StateTable : rawRow.st # e[1]) => decodedRow.state = rawRow.st

(* C21, as claimed: every call of KillProcess the kill handler makes names a
   pid that is strictly positive and is not the server's pid; a pid of 0 or a
   negative pid in the path sends no signal *)
C21_KillTargetsPositiveForeignPid ==
    \A r \in Reqs :
        req[r].kill.killed => (req[r].kill.pid > 0 /\ req[r].kill.pid # ServicePID)

(* the goroutine is inside an access of one of these modes to the session map *)
InSessions(g, modes) ==
    /\ AtStep(g) /\ gor[g].in
    /\ StepOf(g)[1] \in modes /\ StepOf(g)[2] = "sessions"

(* the locks a goroutine holds *)
Held(g) == {m \in Mutexes : locks[m].w = g \/ g \in locks[m].r}

(* C22: a goroutine inside a write of the session map (login, logout, sweep,
   eviction) holds am.mu exclusively and no other goroutine is inside any
   access of the map; a goroutine inside a read of the map holds am.mu shared *)
C22_SessionMapUnderLock ==
    \A g \in Goroutines :
        /\ InSessions(g, {"write"}) =>
            /\ locks["am.mu"].w = g /\ locks["am.mu"].r = {}
            /\ \A h \in Goroutines \ {g} : ~InSessions(h, {"read", "write"})
        /\ InSessions(g, {"read"}) =>
            /\ g \in locks["am.mu"].r
            /\ locks["am.mu"].w = ""

C22_Witness ==
    /\ \A g \in Goroutines : InSessions(g, {"read"}) /\ gor[g].call \in {"view", "viewExpired"}
    /\ locks["am.mu"].r = Goroutines

(* C23: a session whose context is cancelled eventually has returned with no
   ticker running; a call that has returned owns no running ticker, and
   nothing happens on it any more (no tick is served, no frame is written) *)
C23_Returned(s) == sse[s].pc = "closed" /\ sse[s].tickers = {}

C23_NothingAfterReturn ==
    \A s \in Streams :
        (sse[s].pc = "closed" /\ sse'[s] # sse[s]) => sse'[s] = IdleSse

C23_CancelTearsDown ==
    /\ \A s \in Streams : sse[s].ctx ~> C23_Returned(s)
    /\ [](\A s \in Streams : sse[s].pc = "closed" => sse[s].tickers = {})
    /\ [][C23_NothingAfterReturn]_vars

C23_Witness ==
    \E s \in Streams :
        /\ sse[s].ctx /\ sse[s].pc = "closed" /\ sse[s].cause = "cancel"
        /\ sse[s].timed /\ sse[s].tickers = {}
        /\ \E t \in Streams : sse[t].pc = "loop" /\ sse[t].tickers = CategorySet

(* the session store as a sweep at the present time would leave it *)
SweptNow == CleanupExpiredSessions(sessions, now)

(* C24, as claimed: the answer of every validation and of every auth-status
   query is the answer the same call gives on the store a sweep has just
   been through: a session past its expiry counts as no session *)
C24_ValidationSweepFree ==
    \A r \in Reqs :
        (req[r].pc = "done" /\ req[r].validated)
            => (req[r].isAuth <=> req[r].token \in DOMAIN SweptNow)

C24_SweepNeverObservable ==
    /\ C24_ValidationSweepFree
    /\ \A r \in Reqs :
        (req[r].pc = "done" /\ req[r].route = "status")
            => (req[r].isAuth <=> req[r].token \in DOMAIN SweptNow)

(* C25, as claimed: the rate a process-list sample reports for a pid the
   previous list sample stored is the tick delta since that list sample over
   the time since that list sample, whatever detail lookups came between *)
C25_ListStep ==
    \A s \in Samplers :
        (smp[s].pc = "update" /\ smp'[s].pc # "update" /\ smp[s].op = "list"
                /\ smp[s].pid \in DOMAIN listTicks)
            => smp'[s].rate = CPUPercent(TRUE, smp[s].ticks, listTicks[smp[s].pid],
                                         Elapsed(smp[s].at, previousTime))

C25_DetailLeavesListRate == [][C25_ListStep]_vars

(* C26: every observation stores the ticks it has just read as the pid's
   state, whether they are above, far above or below the stored ones, and
   computes its rate against the ticks the previous observation stored; so
   the observation after a decrease reports an unwrapped delta *)
C26_StoreStep ==
    \A s \in Samplers :
        (smp[s].pc = "update" /\ smp'[s].pc # "update") =>
            /\ smp[s].pid \in DOMAIN previousCPUTicks'
            /\ previousCPUTicks'[smp[s].pid] = smp[s].ticks
            /\ \A p \in DOMAIN previousCPUTicks \ {smp[s].pid} :
                    previousCPUTicks'[p] = previousCPUTicks[p]
            /\ smp[s].pid \in DOMAIN previousCPUTicks =>
                    /\ smp'[s].prev = previousCPUTicks[smp[s].pid]
                    /\ smp'[s].rate.lo = smp[s].ticks - previousCPUTicks[smp[s].pid]
                    /\ (smp[s].ticks >= previousCPUTicks[smp[s].pid] => smp'[s].rate.hi = 0)

C26_UnconditionalOverwrite == [][C26_StoreStep]_vars

C26_Witness ==
    \E s \in Samplers :
        /\ smp[s].pc \in {"end", "done"}
        /\ smp[s].rate.has /\ smp[s].rate.hi = 1
        /\ smp[s].ticks < smp[s].prev
        /\ previousCPUTicks[smp[s].pid] = smp[s].ticks

(* C27: the markers a handler sees are "true" or "false" as the middleware
   computed them from admin mode and the session store, whatever values the
   client sent for the two headers: X-Authenticated is true exactly for admin
   mode or a valid session, X-ReadWrite exactly for admin mode or a valid
   read-write session, and X-ReadWrite is never true with X-Authenticated
   not true *)
C27_MarkersFromMiddleware ==
    \A r \in Reqs :
        (req[r].route \in Routes /\ (req[r].pc = "next" \/ req[r].invoked)) =>
            /\ req[r].hAuth \in {"true", "false"}
            /\ req[r].hRW \in {"true", "false"}
            /\ req[r].hAuth = "true" <=> (am.isAdmin \/ ValidSession(req[r].token))
            /\ req[r].hRW = "true" <=> (am.isAdmin \/ ValidReadWrite(req[r].token))
            /\ req[r].hRW = "true" => req[r].hAuth = "true"

C27_Witness ==
    \E r \in Reqs :
        /\ req[r].pc = "done" /\ req[r].route = "view" /\ req[r].invoked
        /\ ~am.isAdmin /\ am.isPublic
        /\ ~ValidSession(req[r].token)
        /\ req[r].hAuth = "false" /\ req[r].hRW = "false"
        /\ \E t \in DOMAIN sessions : ValidReadWrite(t)

(* C28: a sweep removes exactly the sessions whose expiry is before the
   present time and leaves every other session as it was, field by field; a
   sweep of a store with no such session changes nothing *)
C28_SweepStep ==
    Sweep =>
        /\ DOMAIN sessions' = {t \in DOMAIN sessions : ~(sessions[t].ExpiresAt < now)}
        /\ \A t \in DOMAIN sessions' :
            /\ sessions'[t].Token = sessions[t].Token
            /\ sessions'[t].Username = sessions[t].Username
            /\ sessions'[t].ReadWrite = sessions[t].ReadWrite
            /\ sessions'[t].CreatedAt = sessions[t].CreatedAt
            /\ sessions'[t].ExpiresAt = sessions[t].ExpiresAt
        /\ (\A t \in DOMAIN sessions : sessions[t].ExpiresAt >= now) => sessions' = sessions

C28_SweepRemovesExactlyExpired == [][C28_SweepStep]_vars

C28_Witness ==
    /\ \A r \in Reqs : req[r] = IdleReq
    /\ \E t \in DOMAIN issued \ loggedOut :
        /\ issued[t].at + SessionTTL < now
        /\ t \notin DOMAIN sessions
    /\ \E u \in DOMAIN sessions : sessions[u].ExpiresAt = now

(* C29: a goroutine that is inside a blocking call (a read under /proc, the
   random source, a read from or a write to its client) holds none of am.mu,
   processMutex, cpuMutex and diskMutex *)
C29_NoLockAcrossBlockingCall ==
    \A g \in Goroutines :
        (AtStep(g) /\ gor[g].in /\ StepOf(g)[1] = "io") => Held(g) = {}

C29_Witness ==
    \E g \in Goroutines, h \in Goroutines :
        /\ AtStep(g) /\ gor[g].in /\ StepOf(g) = <<"io", "/proc">>
        /\ gor[g].call = "processes" /\ gor[g].pc > 1
        /\ locks["processMutex"].w = h /\ h # g
        /\ AtStep(h) /\ gor[h].in /\ StepOf(h)[1] = "write"

(* a row the decoders cannot read: too few fields, or an address field that
   is not "address:port" *)
Malformed(row) == row.nf < 10 \/ Len(row.addr) # 2
Sound(row) == ~Malformed(row)

(* /proc without the processes whose descriptor table cannot be read *)
ReadableProcs == [pid \in {p \in ScanPids : procfs[p].fdOk} |-> procfs[pid]]

(* C30, as claimed: the answer of a scan is the answer of the same scan on
   the input without the processes whose descriptor table cannot be read
   and without the malformed rows of the connection table *)
C30_LocalFailuresOnlyDropTheirInput ==
    sockOut.has =>
        sockOut.rows = parseNetSockets(SelectSeq(nettab, Sound), buildInodeMap(ReadableProcs))

====
